---- MODULE Spec2Model ----
(***************************************************************************)
(* The streaming session / approval engine of bot.py: the agent subprocess *)
(* and its stdout stream, the two read loops (run_claude_streaming and     *)
(* continue_after_approval), the pending_edits table and the handlers      *)
(* handle_message and handle_edit_callback.                                *)
(*                                                                         *)
(* Handlers are asyncio coroutines: a step of the model is the code that   *)
(* runs between two awaits of one coroutine.  Handlers interleave at their *)
(* awaits (spec.md section 5, "multiple users' turns run concurrently");    *)
(* the schedules of an Application that handles one update at a time, as   *)
(* the one built at bot.py:1031 does by default, are among them.           *)
(*                                                                         *)
(* The agent's stdout is a sequence of units (bytes).  A record is a line  *)
(* of units ended by NL; its first unit is the record's type and the next  *)
(* its payload, so that, as with a JSON object, no proper prefix and no    *)
(* proper suffix of a record is itself a record.  The payload "hi","lo" is *)
(* one character encoded on two bytes.  uuid4()[:8] is modelled as a fresh *)
(* identifier.                                                             *)
(***************************************************************************)
EXTENDS Integers, Sequences, FiniteSets, TLC

VARIABLES
    procs,          \* the agent subprocesses, in order of creation
    tasks,          \* per subprocess, the handler invocation that last held it
    pending_edits,  \* bot.py:147, edit_id -> PendingEdit
    sessions,       \* SessionManager.sessions, user -> Session
    shown,          \* edit ids whose approval message (with buttons) was sent
    edit_ids,       \* number of edit ids generated so far
    gate,           \* history: process -> edit id it is suspended on (0: none)
    ev,             \* history: the handle_edit_callback lookup just made (its
                    \* edit id, its branch, and whether the entry was the caller's)
    file,           \* SESSIONS_FILE: what SessionManager._save wrote last
    now,            \* datetime.now()
    allowed,        \* ALLOWED_USER_IDS
    fmt,            \* the last call of format_diff / format_new_file
    call,           \* history: the last call of a SessionManager method, or
                    \* the last message turned away, and the table before it
    io              \* the last call of a helper of the handlers: its
                    \* arguments and what it returned

vars == <<procs, tasks, pending_edits, sessions, shown, edit_ids, gate, ev,
          file, now, allowed, fmt, call, io>>

(* What no handler of the approval engine writes *)
outside == <<now, allowed, fmt, call, io>>

-----------------------------------------------------------------------------
(* Bounds of the model *)

NUsers == 2
MaxTurns == 2
MaxRecs == 2
MaxEdits == 1
MaxToolRecs == 3
MaxStreamRecs == 3

(* Program constants *)

READ_SIZE == 4096
ERR_EXCERPT == 500
DEFAULT_CWD == "~"

Users == 1..NUsers

None == "None"        \* Python's None
Absent == "absent"    \* a key the JSON object does not have

-----------------------------------------------------------------------------
(* Units of the stream, records and their JSON values *)

NL == "NL"
SP == "sp"

NoInput == [file_path |-> Absent, old_string |-> Absent, new_string |-> Absent,
            content |-> Absent]

TextBlock(t) == [type |-> "text", text |-> t, name |-> Absent, input |-> NoInput]

ToolUse(n, i) == [type |-> "tool_use", text |-> Absent, name |-> n, input |-> i]

ToolResult == [type |-> "tool_result", text |-> Absent, name |-> Absent,
               input |-> NoInput]

EditInput == [file_path |-> "/a", old_string |-> "o", new_string |-> "n",
              content |-> Absent]

WriteInput == [file_path |-> "/b", old_string |-> Absent, new_string |-> Absent,
               content |-> "c"]

BashInput == NoInput

(* MultiEdit: a file_path and a list of edits *)
MultiEditInput == [NoInput EXCEPT !.file_path = "/a"]

Event(t, sid, res, blocks) ==
    [type |-> t, session_id |-> sid, result |-> res, content |-> blocks]

SidOf(u) == IF u = "1" THEN "s1" ELSE IF u = "2" THEN "s2" ELSE Absent

(* The lines json.loads accepts: <<type unit, payload>>. *)
JsonLines ==
    { <<"S", "0">>, <<"S", "1">>, <<"S", "2">>,
      <<"A", "t">>, <<"A", "hi", "lo">>, <<"A", "E">>, <<"A", "W">>, <<"A", "B">>,
      <<"A", "M">>,
      <<"U", "d">>,
      <<"R", "0">>, <<"R", "1">>, <<"R", "2">> }

IsJson(line) == line \in JsonLines

JsonLoads(line) ==
    CASE line[1] = "S" -> Event("system", SidOf(line[2]), Absent, <<>>)
      [] line[1] = "U" -> Event("user", Absent, Absent, <<ToolResult>>)
      [] line[1] = "R" -> Event("result", SidOf(line[2]), "done", <<>>)
      [] line[1] = "A" ->
            Event("assistant", Absent, Absent,
                  << CASE line[2] = "t"  -> TextBlock("t")
                       [] line[2] = "hi" -> TextBlock("e'")
                       [] line[2] = "E"  -> ToolUse("Edit", EditInput)
                       [] line[2] = "W"  -> ToolUse("Write", WriteInput)
                       [] line[2] = "M"  -> ToolUse("MultiEdit", MultiEditInput)
                       [] OTHER          -> ToolUse("Bash", BashInput) >>)

(* bytes.decode(): strict UTF-8.  A lead byte must be followed by its      *)
(* continuation byte inside the same bytes object.                         *)
ValidUtf8(chunk) ==
    \A i \in 1..Len(chunk) :
        /\ chunk[i] = "hi" => (i < Len(chunk) /\ chunk[i + 1] = "lo")
        /\ chunk[i] = "lo" => (i > 1 /\ chunk[i - 1] = "hi")

RECURSIVE Strip(_)
Strip(s) ==
    IF s = <<>> THEN s
    ELSE IF Head(s) = SP THEN Strip(Tail(s))
    ELSE IF s[Len(s)] = SP THEN Strip(SubSeq(s, 1, Len(s) - 1))
    ELSE s

HasNL(s) == \E i \in 1..Len(s) : s[i] = NL

FirstNL(s) == CHOOSE i \in 1..Len(s) : s[i] = NL /\ \A j \in 1..(i - 1) : s[j] # NL

(* str.split("\n"): the pieces between the terminators, the last included. *)
RECURSIVE SplitLines(_)
SplitLines(s) ==
    IF ~HasNL(s) THEN <<s>>
    ELSE <<SubSeq(s, 1, FirstNL(s) - 1)>>
             \o SplitLines(SubSeq(s, FirstNL(s) + 1, Len(s)))

Get(v, default) == IF v = Absent THEN default ELSE v

-----------------------------------------------------------------------------
(* The read loops *)

NoTool == [type |-> Absent, text |-> Absent, name |-> Absent, input |-> NoInput]

(* The locals of a read loop: buffer, full_response, session_id; status is *)
(* where the loop stands ("reading", "pending_approval" on the return of a *)
(* pending approval, "raised" on an exception), tool the tool_use block    *)
(* that suspended it, and handled the events the loop has dispatched.      *)
LoopState(sid) ==
    [buffer |-> <<>>, full_response |-> "", session_id |-> sid,
     handled |-> <<>>, status |-> "reading", tool |-> NoTool]

(* A test that takes every tool that changes files *)
NeedsApprovalEveryEdit(tool_name) == tool_name \in {"Edit", "Write", "MultiEdit"}

NeedsApproval(tool_name) == tool_name \in {"Edit", "Write"}

RECURSIVE RunBlocks(_, _)
RunBlocks(st, content) ==
    IF content = <<>> THEN st
    ELSE LET block == Head(content) IN
         IF block.type = "text"
         THEN RunBlocks([st EXCEPT !.full_response = Get(block.text, "")],
                        Tail(content))
         ELSE IF block.type = "tool_use" /\ NeedsApproval(Get(block.name, ""))
         THEN [st EXCEPT !.status = "pending_approval", !.tool = block]
         ELSE RunBlocks(st, Tail(content))

RunEventSkipsSystem(st, data) ==
    LET s == [st EXCEPT !.handled = Append(@, data)] IN
    CASE data.type = "assistant" -> RunBlocks(s, data.content)
      [] data.type = "result" ->
            [s EXCEPT !.full_response = Get(data.result, @),
                      !.session_id = Get(data.session_id, None)]
      [] OTHER -> s

RunEvent(st, data) ==
    LET s == [st EXCEPT !.handled = Append(@, data)] IN
    CASE data.type = "assistant" -> RunBlocks(s, data.content)
      [] data.type = "result" ->
            [s EXCEPT !.full_response = Get(data.result, @),
                      !.session_id = Get(data.session_id, None)]
      [] data.type = "system" ->
            [s EXCEPT !.session_id = Get(data.session_id, @)]
      [] OTHER -> s

(* One record of the buffer: skipped when blank or when json.loads fails. *)
RunLine(st, line_str) ==
    IF line_str = <<>> THEN st
    ELSE IF ~IsJson(line_str) THEN st
    ELSE RunEvent(st, JsonLoads(line_str))

RECURSIVE RunLines(_)
RunLines(st) ==
    IF ~HasNL(st.buffer) THEN st
    ELSE LET i == FirstNL(st.buffer)
             line_str == Strip(SubSeq(st.buffer, 1, i - 1))
             st1 == RunLine([st EXCEPT !.buffer = SubSeq(@, i + 1, Len(@))],
                            line_str)
         IN  IF st1.status = "reading" THEN RunLines(st1) ELSE st1

(* run_claude_streaming, one read: buffer += chunk.decode(), then every   *)
(* complete line of the buffer.                                           *)
RunChunk(st, chunk) ==
    IF ~ValidUtf8(chunk) THEN [st EXCEPT !.status = "raised"]
    ELSE RunLines([st EXCEPT !.buffer = @ \o chunk])

RECURSIVE ContBlocks(_, _)
ContBlocks(st, content) ==
    IF content = <<>> THEN st
    ELSE LET block == Head(content) IN
         IF block.type = "tool_use" /\ NeedsApproval(Get(block.name, ""))
         THEN [st EXCEPT !.status = "pending_approval", !.tool = block]
         ELSE ContBlocks(st, Tail(content))

ContEvent(st, data) ==
    LET s == [st EXCEPT !.handled = Append(@, data)] IN
    CASE data.type = "result" ->
            [s EXCEPT !.full_response = Get(data.result, ""),
                      !.session_id = Get(data.session_id, @)]
      [] data.type = "assistant" -> ContBlocks(s, data.content)
      [] OTHER -> s

ContLine(st, line) ==
    IF Strip(line) = <<>> THEN st
    ELSE IF ~IsJson(Strip(line)) THEN st
    ELSE ContEvent(st, JsonLoads(Strip(line)))

RECURSIVE ContLines(_, _)
ContLines(st, lines) ==
    IF lines = <<>> THEN st
    ELSE LET st1 == ContLine(st, Head(lines))
         IN  IF st1.status = "reading" THEN ContLines(st1, Tail(lines)) ELSE st1

(* continue_after_approval, one read: every piece of chunk.decode().split *)
ContChunk(st, chunk) ==
    IF ~ValidUtf8(chunk) THEN [st EXCEPT !.status = "raised"]
    ELSE ContLines(st, SplitLines(chunk))

-----------------------------------------------------------------------------
(* The agent's output *)

RECURSIVE Bytes(_)
Bytes(recs) ==
    IF recs = <<>> THEN <<>> ELSE Head(recs) \o <<NL>> \o Bytes(Tail(recs))

(* The units of the stream that belong to records json.loads accepts. *)
RECURSIVE Decodable(_)
Decodable(recs) ==
    IF recs = <<>> THEN <<>>
    ELSE [i \in 1..(Len(Head(recs)) + 1) |-> IsJson(Strip(Head(recs)))]
             \o Decodable(Tail(recs))

RECURSIVE Filter(_, _)
Filter(s, keep) ==
    IF s = <<>> THEN <<>>
    ELSE (IF Head(keep) THEN <<Head(s)>> ELSE <<>>) \o Filter(Tail(s), Tail(keep))

(* Units a+1..b of the stream, and the same without the undecodable records *)
Chunk(recs, a, b) == SubSeq(Bytes(recs), a + 1, b)

CleanChunk(recs, a, b) ==
    Filter(Chunk(recs, a, b), SubSeq(Decodable(recs), a + 1, b))

Min(a, b) == IF a < b THEN a ELSE b

-----------------------------------------------------------------------------
(* Outcomes of a turn, PendingEdit, Session *)

NoResult ==
    [status |-> "none", edit_id |-> 0, tool_name |-> None, file_path |-> None,
     old_string |-> None, new_string |-> None, process |-> 0,
     session_id |-> None, cwd |-> None, user_id |-> 0, response |-> None,
     message |-> None]

(* An outcome that reads a Write block as it reads an Edit block *)
PendingResultAsEdit(tool, e, p, sid, cwd, uid) ==
    [NoResult EXCEPT
        !.status = "pending_approval", !.edit_id = e, !.tool_name = tool.name,
        !.file_path = Get(tool.input.file_path, ""),
        !.old_string = Get(tool.input.old_string, ""),
        !.new_string = Get(tool.input.new_string, ""),
        !.process = p, !.session_id = sid, !.cwd = cwd, !.user_id = uid]

PendingResult(tool, e, p, sid, cwd, uid) ==
    [NoResult EXCEPT
        !.status = "pending_approval", !.edit_id = e, !.tool_name = tool.name,
        !.file_path = Get(tool.input.file_path, ""),
        !.old_string = IF tool.name = "Edit" THEN Get(tool.input.old_string, "")
                       ELSE "",
        !.new_string = IF tool.name = "Edit" THEN Get(tool.input.new_string, "")
                       ELSE Get(tool.input.content, ""),
        !.process = p, !.session_id = sid, !.cwd = cwd, !.user_id = uid]

Complete(response, sid) ==
    [NoResult EXCEPT !.status = "complete", !.response = response,
                     !.session_id = sid]

Error(msg) == [NoResult EXCEPT !.status = "error", !.message = msg]

PendingEdit(r, chat, uid, cwd) ==
    [edit_id |-> r.edit_id, chat_id |-> chat, message_id |-> r.edit_id,
     user_id |-> uid, tool_name |-> r.tool_name, file_path |-> r.file_path,
     old_string |-> r.old_string, new_string |-> r.new_string,
     process |-> r.process, session_id |-> r.session_id, cwd |-> cwd]

NoPending == PendingEdit(NoResult, 0, 0, None)

(* Session(id=datetime.now().strftime(...), cwd=cwd): created_at is the *)
(* clock too, by its default factory                                    *)
strftime(t) == t.sec

isoformat(t) == t

Session(cwd) ==
    [id |-> strftime(now), cwd |-> cwd, created_at |-> isoformat(now),
     resume_id |-> None]

(* json.dumps / json.loads of a field: None is written as null *)
JsonNull == <<"null">>

JsonDumps(v) == <<"json", v>>

(* Optional[str]: None goes out as null *)
JsonDumpsOptional(v) == IF v = None THEN JsonNull ELSE JsonDumps(v)

JsonValue(j) == IF j = JsonNull THEN None ELSE j[2]

(* str(k) of a user id, and int(uid) of the key read back *)
str(k) == <<"str", k>>

int(uid) == uid[2]

to_dict(session) ==
    [id |-> JsonDumps(session.id), cwd |-> JsonDumps(session.cwd),
     created_at |-> JsonDumps(session.created_at),
     resume_id |-> JsonDumpsOptional(session.resume_id)]

from_dict(data) ==
    [id |-> JsonValue(data.id), cwd |-> JsonValue(data.cwd),
     created_at |-> JsonValue(data.created_at),
     resume_id |-> JsonValue(data.resume_id)]

(* The sessions file before the first write: filepath.exists() is false *)
NoFile == [exists |-> FALSE, text |-> <<>>]

(* A SessionManager: its table and the file behind it *)
Manager == [sessions |-> sessions, file |-> file]

(* filepath.write_text(json.dumps(data)) *)
save(m) ==
    [m EXCEPT !.file =
        [exists |-> TRUE,
         text |-> [uid \in {str(k) : k \in DOMAIN m.sessions} |->
                      to_dict(m.sessions[int(uid)])]]]

(* SessionManager(filepath): an empty table, then _load *)
load(f) ==
    IF ~f.exists THEN <<>>
    ELSE LET data == f.text
         IN  [k \in {int(uid) : uid \in DOMAIN data} |-> from_dict(data[str(k)])]

(* get_or_create that leaves the file as it was *)
get_or_createUnsaved(m, user_id) ==
    IF user_id \in DOMAIN m.sessions THEN m
    ELSE [m EXCEPT !.sessions = @ @@ (user_id :> Session(DEFAULT_CWD))]

get_or_create(m, user_id) ==
    IF user_id \in DOMAIN m.sessions THEN m
    ELSE save([m EXCEPT !.sessions = @ @@ (user_id :> Session(DEFAULT_CWD))])

(* update that sets the attributes on every session of the table *)
updateEveryone(m, user_id, kwargs) ==
    LET m1 == get_or_create(m, user_id)
    IN  save([m1 EXCEPT !.sessions =
                 [u \in DOMAIN m1.sessions |->
                     [k \in DOMAIN m1.sessions[u] |->
                         IF k \in DOMAIN kwargs THEN kwargs[k]
                         ELSE m1.sessions[u][k]]]])

(* setattr(session, k, v) for every keyword argument, then _save *)
update(m, user_id, kwargs) ==
    LET m1 == get_or_create(m, user_id)
        session == m1.sessions[user_id]
    IN  save([m1 EXCEPT !.sessions[user_id] =
                 [k \in DOMAIN session |->
                     IF k \in DOMAIN kwargs THEN kwargs[k] ELSE session[k]]])

Truthy(v) == v # None /\ v # ""

(* reset that carries the token of the old session over *)
resetKeepsResume(m, user_id, cwd) ==
    LET fresh == Session(IF Truthy(cwd) THEN cwd ELSE DEFAULT_CWD)
        kept == IF user_id \in DOMAIN m.sessions
                THEN [fresh EXCEPT !.resume_id = m.sessions[user_id].resume_id]
                ELSE fresh
    IN  save([m EXCEPT !.sessions = (user_id :> kept) @@ @])

reset(m, user_id, cwd) ==
    save([m EXCEPT !.sessions =
             (user_id :> Session(IF Truthy(cwd) THEN cwd ELSE DEFAULT_CWD)) @@ @])

(* ---- callback data, truncate_message ---- *)
APPROVE == <<"a", "p", "p", "r", "o", "v", "e">>

REJECT == <<"r", "e", "j", "e", "c", "t">>

(* f"approve_{edit_id}", f"reject_{edit_id}" *)
callback_data(action, edit_id) == action \o <<"_">> \o edit_id

(* data.split("_", 1) cut at the last underscore instead of the first *)
rsplit1(data) ==
    LET seps == {i \in 1..Len(data) : data[i] = "_"}
        i == CHOOSE x \in seps : \A y \in seps : y <= x
    IN  <<SubSeq(data, 1, i - 1), SubSeq(data, i + 1, Len(data))>>

(* data.split("_", 1), for data that holds an underscore *)
split1(data) ==
    LET seps == {i \in 1..Len(data) : data[i] = "_"}
        i == CHOOSE x \in seps : \A y \in seps : x <= y
    IN  <<SubSeq(data, 1, i - 1), SubSeq(data, i + 1, Len(data))>>

(* handle_edit_callback: approve on "approve", reject on anything else *)
Dispatch(action) == IF action = APPROVE THEN "approve" ELSE "reject"

TRUNCATED_MARK ==
    <<NL, NL, "[", "T", "r", "u", "n", "c", "a", "t", "e", "d", "]">>

MARK_ROOM == 20

(* text[:k]: the first k characters, or all but the last -k when k < 0 *)
Slice(text, k) ==
    IF k >= 0 THEN SubSeq(text, 1, Min(k, Len(text)))
    ELSE SubSeq(text, 1, Len(text) + k)

truncate_message(text, max_length) ==
    IF Len(text) <= max_length THEN text
    ELSE Slice(text, max_length - MARK_ROOM) \o TRUNCATED_MARK

(* ---- format_diff, format_new_file ---- *)
(* A str is the sequence of its characters. A rendered text is a sequence *)
(* of items: a character that came from the input, escaped or not, or a    *)
(* piece of the template, which is one item whatever its length.           *)

max_len == 2500

B_OPEN == "<b>DOC "
B_CLOSE == "</b>"
CODE_OPEN == "<code>"
CODE_CLOSE == "</code>"
NO_CHANGES == "<i>No changes</i>"
NEW_FILE == " (new file)"
TRUNCATED == "... (truncated)"

(* html.escape(s), quote=True *)
escape1(c) ==
    CASE c = "&" -> "&amp;"
      [] c = "<" -> "&lt;"
      [] c = ">" -> "&gt;"
      [] c = "\"" -> "&quot;"
      [] c = "'" -> "&#x27;"
      [] OTHER -> c

html_escape(s) == [i \in 1..Len(s) |-> escape1(s[i])]

(* file_path.split('/')[-1] *)
filename(file_path) ==
    LET slashes == {i \in 1..Len(file_path) : file_path[i] = "/"}
    IN  IF slashes = {} THEN file_path
        ELSE SubSeq(file_path,
                    (CHOOSE i \in slashes : \A j \in slashes : j <= i) + 1,
                    Len(file_path))

(* str.splitlines(): as split, but a final terminator opens no empty line *)
splitlines(s) ==
    LET parts == SplitLines(s)
    IN  IF parts[Len(parts)] = <<>> THEN SubSeq(parts, 1, Len(parts) - 1)
        ELSE parts

(* '\n'.join(lines) *)
RECURSIVE join(_)
join(lines) ==
    IF lines = <<>> THEN <<>>
    ELSE IF Len(lines) = 1 THEN lines[1]
    ELSE lines[1] \o <<NL>> \o join(Tail(lines))

(* f"- {line}" or f"+ {line}" for each line *)
Marked(mark, lines) == [i \in 1..Len(lines) |-> <<mark, SP>> \o lines[i]]

formatted_lines(old_string, new_string) ==
    LET old_lines == splitlines(old_string)
        new_lines == splitlines(new_string)
    IN  Marked("-", old_lines)
            \o (IF old_lines # <<>> /\ new_lines # <<>> THEN << <<>> >> ELSE <<>>)
            \o Marked("+", new_lines)

(* format_diff without the test for identical strings *)
format_diffAlwaysLines(old_string, new_string, file_path) ==
    LET diff_content == join(formatted_lines(old_string, new_string))
        display == IF Len(diff_content) > max_len
                   THEN SubSeq(diff_content, 1, max_len) \o <<NL, NL, TRUNCATED>>
                   ELSE diff_content
    IN  <<B_OPEN>> \o filename(file_path) \o <<B_CLOSE, NL, NL>>
            \o <<CODE_OPEN>> \o html_escape(display) \o <<CODE_CLOSE>>

format_diff(old_string, new_string, file_path) ==
    IF old_string = new_string
    THEN <<B_OPEN>> \o filename(file_path) \o <<B_CLOSE, NL, NL, NO_CHANGES>>
    ELSE LET diff_content == join(formatted_lines(old_string, new_string))
             display == IF Len(diff_content) > max_len
                        THEN SubSeq(diff_content, 1, max_len)
                                 \o <<NL, NL, TRUNCATED>>
                        ELSE diff_content
         IN  <<B_OPEN>> \o filename(file_path) \o <<B_CLOSE, NL, NL>>
                 \o <<CODE_OPEN>> \o html_escape(display) \o <<CODE_CLOSE>>

format_new_file(content, file_path) ==
    LET display == IF Len(content) > max_len
                   THEN SubSeq(content, 1, max_len) \o <<NL, NL, TRUNCATED>>
                   ELSE content
        formatted == join(Marked("+", SplitLines(display)))
    IN  <<B_OPEN>> \o filename(file_path) \o <<B_CLOSE, NEW_FILE, NL, NL>>
            \o <<CODE_OPEN>> \o html_escape(formatted) \o <<CODE_CLOSE>>

(* handle_message / handle_approve on a complete outcome *)
OnComplete(m, user_id, r) ==
    IF Truthy(r.session_id) THEN update(m, user_id, [resume_id |-> r.session_id])
    ELSE m

-----------------------------------------------------------------------------
(* Tasks and processes *)

(* A handler invocation: handle_message ("msg") or handle_edit_callback    *)
(* ("cb") with its locals.  A handler gets hold of a subprocess by creating *)
(* it or by popping its PendingEdit, so tasks[p] is the one holding p.     *)
(* reply is the final message the handler sent; prior (history) the events *)
(* that earlier calls handled on the same subprocess, and start (history)  *)
(* how much of the stream had been read when the handler's loop began.     *)
Task(kind, user, chat) ==
    [kind |-> kind, user |-> user, chat |-> chat, pc |-> "start",
     edit |-> 0, action |-> None, pending |-> NoPending,
     st |-> LoopState(None), clean |-> LoopState(None), result |-> NoResult,
     timedOut |-> FALSE, raised |-> FALSE, cwd |-> None, reply |-> None,
     prior |-> <<>>, start |-> 0]

(* cwd is the directory the subprocess was created in, and user_id        *)
(* (history) the user whose message created it.  heartbeat_task and       *)
(* stderr_task are the two tasks run_claude_streaming starts next to it,  *)
(* i the heartbeat's counter (modulo the number of phases) and phase the  *)
(* phase its last status update displayed (<<>>: none yet).               *)
Process(recs, resume_id, reader) ==
    [recs |-> recs, resume |-> resume_id, pos |-> 0, alive |-> TRUE,
     returncode |-> None, kills |-> 0, waited |-> FALSE, reader |-> reader,
     cwd |-> None, user_id |-> 0, heartbeat_task |-> "running",
     stderr_task |-> "running", i |-> 0, phase |-> <<>>]

NoEv == [edit |-> 0, outcome |-> None, own |-> FALSE]

(* str(uuid.uuid4())[:8]: an identifier not generated before *)
NewEditId == edit_ids + 1

Remaining(p) == Len(Bytes(procs[p].recs)) - procs[p].pos

Remove(table, e) == [x \in DOMAIN table \ {e} |-> table[x]]

-----------------------------------------------------------------------------
(* handle_message *)

(* is_authorized that lets everyone in *)
is_authorizedAnyone(user_id) == TRUE

is_authorized(user_id) == allowed = {} \/ user_id \in allowed

UNAUTHORIZED == "Unauthorized."

(* handle_message for a user turned away: the reply, and nothing else *)
Unauthorized(u) ==
    /\ ~is_authorized(u)
    /\ call' = [op |-> "handle_message", user_id |-> u, arg |-> None,
                ret |-> UNAUTHORIZED, before |-> sessions]
    /\ ev' = NoEv
    /\ UNCHANGED <<procs, tasks, pending_edits, sessions, shown, edit_ids, gate,
                   file, now, allowed, fmt, io>>

(* handle_message up to the first read of run_claude_streaming: the session *)
(* is fetched and the subprocess created in session.cwd with its resume_id. *)
Message(u, chat, recs, maxTurns) ==
    /\ is_authorized(u)
    /\ Len(procs) < maxTurns
    /\ LET m == get_or_create(Manager, u)
           p == Len(procs) + 1
       IN  /\ sessions' = m.sessions
           /\ file' = m.file
           /\ procs' = Append(procs,
                  [Process(recs, m.sessions[u].resume_id, p) EXCEPT
                      !.cwd = m.sessions[u].cwd, !.user_id = u])
           /\ tasks' = Append(tasks, [Task("msg", u, chat) EXCEPT
                                         !.pc = "read", !.cwd = m.sessions[u].cwd])
    /\ gate' = Append(gate, 0)
    /\ ev' = NoEv
    /\ UNCHANGED outside
    /\ UNCHANGED <<pending_edits, shown, edit_ids>>

(* What a read loop does with the state its chunk left it in. *)
AfterChunk(p, st, clean) ==
    LET task == [tasks[p] EXCEPT !.st = st, !.clean = clean] IN
    CASE st.status = "pending_approval" ->
            /\ tasks' = [tasks EXCEPT ![p] =
                  [task EXCEPT !.pc = "show",
                       !.result = IF task.kind = "msg"
                                  THEN PendingResult(st.tool, NewEditId, p,
                                          st.session_id, task.cwd, task.user)
                                  ELSE PendingResult(st.tool, NewEditId,
                                          task.pending.process, st.session_id,
                                          task.pending.cwd, task.pending.user_id)]]
            /\ edit_ids' = edit_ids + 1
            /\ gate' = [gate EXCEPT ![p] = NewEditId]
      [] st.status = "raised" ->
            \* run_claude_streaming lets it through to handle_message's except;
            \* continue_after_approval returns it as an error
            /\ tasks' = [tasks EXCEPT ![p] =
                  [task EXCEPT !.pc = "done", !.raised = (task.kind = "msg"),
                       !.result = IF task.kind = "msg" THEN NoResult
                                  ELSE Error("exception"),
                       !.reply = "error"]]
            /\ UNCHANGED <<edit_ids, gate>>
      [] OTHER ->
            /\ tasks' = [tasks EXCEPT ![p] = task]
            /\ UNCHANGED <<edit_ids, gate>>

(* The cancellation that leaves the stderr reader running *)
CancelHeartbeatOnly(proc) == [proc EXCEPT !.heartbeat_task = "cancelled"]

(* stop_heartbeat[0] = True; heartbeat_task.cancel(); stderr_task.cancel(): *)
(* before the return of a pending approval, and in the finally clause       *)
Cancel(proc) ==
    [proc EXCEPT !.heartbeat_task = "cancelled", !.stderr_task = "cancelled"]

ReadChunk(p) ==
    /\ tasks[p].pc = "read"
    /\ \E k \in 1..Min(READ_SIZE, Remaining(p)) :
          LET a == procs[p].pos
              st == RunChunk(tasks[p].st, Chunk(procs[p].recs, a, a + k))
              clean == RunChunk(tasks[p].clean, CleanChunk(procs[p].recs, a, a + k))
              proc == [procs[p] EXCEPT !.pos = a + k,
                          !.reader = IF st.status = "reading" THEN p ELSE 0]
          IN  /\ procs' = [procs EXCEPT ![p] = IF st.status = "reading" THEN proc
                                               ELSE Cancel(proc)]
              /\ AfterChunk(p, st, clean)
    /\ ev' = NoEv
    /\ UNCHANGED outside
    /\ UNCHANGED <<pending_edits, sessions, file, shown>>

(* b"": the stream is at its end *)
ReadEof(p) ==
    /\ tasks[p].pc = "read"
    /\ Remaining(p) = 0
    /\ ~procs[p].alive
    /\ procs' = [procs EXCEPT ![p] = Cancel([@ EXCEPT !.reader = 0])]
    /\ tasks' = [tasks EXCEPT ![p].pc = "wait"]
    /\ ev' = NoEv
    /\ UNCHANGED outside
    /\ UNCHANGED <<pending_edits, sessions, file, shown, edit_ids, gate>>

(* asyncio.TimeoutError inside the loop: break *)
ReadTimeout(p) ==
    /\ tasks[p].pc = "read"
    /\ procs[p].alive
    /\ procs' = [procs EXCEPT ![p] = Cancel([@ EXCEPT !.reader = 0])]
    /\ tasks' = [tasks EXCEPT ![p].pc = "wait", ![p].timedOut = TRUE]
    /\ ev' = NoEv
    /\ UNCHANGED outside
    /\ UNCHANGED <<pending_edits, sessions, file, shown, edit_ids, gate>>

(* tool_uses is not empty: a system event or a tool_use block was handled *)
ToolActivity(st) ==
    \E k \in 1..Len(st.handled) :
        \/ st.handled[k].type = "system"
        \/ /\ st.handled[k].type = "assistant"
           /\ \E b \in 1..Len(st.handled[k].content) :
                  st.handled[k].content[b].type = "tool_use"

NPhases == 4

(* One round of heartbeat(): the phase is displayed while no tool was seen, *)
(* then i += 1 and the sleep.  A cancelled task is not resumed.             *)
Heartbeat(p) ==
    /\ procs[p].heartbeat_task = "running"
    /\ procs' = [procs EXCEPT
                    ![p].phase = IF ToolActivity(tasks[p].st) THEN @
                                 ELSE <<procs[p].i>>,
                    ![p].i = (@ + 1) % NPhases]
    /\ ev' = NoEv
    /\ UNCHANGED outside
    /\ UNCHANGED <<tasks, pending_edits, sessions, file, shown, edit_ids, gate>>

(* What process.stderr.read() may return once the process has exited: the *)
(* number of bytes, and of characters left by decode().strip()            *)
StderrOutputs ==
    { [raw |-> 0, text |-> 0], [raw |-> 1, text |-> 0],
      [raw |-> ERR_EXCERPT + 1, text |-> ERR_EXCERPT + 1] }

(* f"Error: {error_msg[:500]}": the fixed text and the number of characters *)
(* of standard error that follow it                                         *)
ErrorMessage(stderr) ==
    IF stderr.raw = 0 THEN [text |-> "Error: Unknown error", stderr_chars |-> 0]
    ELSE [text |-> "Error: ", stderr_chars |-> Min(stderr.text, ERR_EXCERPT)]

RunResultIgnoresExit(proc, st, stderr) == Complete(st.full_response, st.session_id)

(* The return of run_claude_streaming after await process.wait() *)
RunResult(proc, st, stderr) ==
    IF proc.returncode # 0 THEN Error(ErrorMessage(stderr))
    ELSE Complete(st.full_response, st.session_id)

NO_RESPONSE == "No response from Claude."

(* The final message of handle_message for an outcome: the response, the *)
(* notice in its place, or the error message                             *)
MessageReply(r) ==
    CASE r.status = "complete" ->
            IF Truthy(r.response) THEN "response" ELSE NO_RESPONSE
      [] r.status = "error" -> "error"
      [] OTHER -> None

(* The final message of handle_approve: none for an empty response *)
ApproveReply(r) ==
    CASE r.status = "complete" ->
            IF Truthy(r.response) THEN "response" ELSE None
      [] r.status = "error" -> "error"
      [] OTHER -> None

(* await process.wait(), the return, and handle_message's branch on it *)
WaitExit(p) ==
    /\ tasks[p].pc = "wait"
    /\ ~procs[p].alive
    /\ \E stderr \in StderrOutputs :
          /\ procs[p].returncode = 0 => stderr.raw = 0
          /\ LET r == RunResult(procs[p], tasks[p].st, stderr) IN
             /\ tasks' = [tasks EXCEPT ![p].pc = "done", ![p].result = r,
                                       ![p].reply = MessageReply(r)]
             /\ LET m == IF r.status = "complete"
                         THEN OnComplete(Manager, tasks[p].user, r)
                         ELSE Manager
                IN  sessions' = m.sessions /\ file' = m.file
    /\ procs' = [procs EXCEPT ![p].waited = TRUE]
    /\ ev' = NoEv
    /\ UNCHANGED outside
    /\ UNCHANGED <<pending_edits, shown, edit_ids, gate>>

(* show_approval_request: send_message delivers the buttons, or raises *)
ShowApproval(p, sent) ==
    /\ tasks[p].pc = "show"
    /\ IF sent
       THEN /\ shown' = shown \cup {tasks[p].result.edit_id}
            /\ tasks' = [tasks EXCEPT ![p].pc = "store"]
       ELSE /\ shown' = shown
            /\ tasks' = [tasks EXCEPT ![p].pc = "done", ![p].raised = TRUE]
    /\ ev' = NoEv
    /\ UNCHANGED outside
    /\ UNCHANGED <<procs, pending_edits, sessions, file, edit_ids, gate>>

(* pending_edits[result["edit_id"]] = PendingEdit(...), the handler's end *)
StoreEdit(p) ==
    /\ tasks[p].pc = "store"
    /\ LET r == tasks[p].result
           entry == IF tasks[p].kind = "msg"
                    THEN PendingEdit(r, tasks[p].chat, tasks[p].user, tasks[p].cwd)
                    ELSE PendingEdit(r, tasks[p].pending.chat_id,
                                     tasks[p].pending.user_id, tasks[p].pending.cwd)
       IN  pending_edits' = (r.edit_id :> entry) @@ pending_edits
    /\ tasks' = [tasks EXCEPT ![p].pc = "done"]
    /\ ev' = NoEv
    /\ UNCHANGED outside
    /\ UNCHANGED <<procs, sessions, file, shown, edit_ids, gate>>

-----------------------------------------------------------------------------
(* handle_edit_callback, handle_approve, handle_reject *)

PopKeeps(table, e) == table

Pop(table, e) == Remove(table, e)

PutBackNothing(table, e, pending) == table

PutBack(table, e, pending) == (e :> pending) @@ table

AuthorizedAnyone(from_user, pending) == TRUE

Authorized(from_user, pending) == from_user = pending.user_id

(* process.kill(): raises ProcessLookupError once the process has exited *)
Kill(proc) ==
    IF proc.alive
    THEN [proc EXCEPT !.alive = FALSE, !.returncode = -9, !.kills = @ + 1]
    ELSE [proc EXCEPT !.kills = @ + 1]

RejectStepUnguarded(task, proc) ==
    [task EXCEPT !.raised = ~proc.alive, !.pc = IF proc.alive THEN "rwait" ELSE "done"]

(* handle_reject up to its first await: kill() inside try/except, then    *)
(* await wait(), or straight to the rejection message when kill() raised. *)
RejectStep(task, proc) ==
    [task EXCEPT !.raised = FALSE, !.pc = IF proc.alive THEN "rwait" ELSE "done"]

(* From query.data to the first await after the lookup: no await between  *)
(* the membership test, the pop, the user check and the put-back.         *)
Callback(u, a, e) ==
    /\ e \in shown
    /\ LET this == [edit |-> e, outcome |-> None,
                    own |-> e \in DOMAIN pending_edits
                            /\ u = pending_edits[e].user_id] IN
       IF e \notin DOMAIN pending_edits
       THEN /\ ev' = [this EXCEPT !.outcome = "expired"]
            /\ UNCHANGED <<procs, tasks, pending_edits, gate>>
       ELSE LET pending == pending_edits[e]
                popped == Pop(pending_edits, e)
                p == pending.process
                task == [Task("cb", u, pending.chat_id) EXCEPT
                            !.edit = e, !.action = a, !.pending = pending,
                            !.prior = tasks[p].prior \o tasks[p].st.handled]
                lifted == IF u = pending.user_id /\ gate[p] = e
                          THEN [gate EXCEPT ![p] = 0] ELSE gate
            IN  IF ~Authorized(u, pending)
                THEN /\ pending_edits' = PutBack(popped, e, pending)
                     /\ ev' = [this EXCEPT !.outcome = "unauthorized"]
                     /\ UNCHANGED <<procs, tasks, gate>>
                ELSE IF a = "approve"
                THEN /\ pending_edits' = popped
                     /\ tasks' = [tasks EXCEPT ![p] = [task EXCEPT !.pc = "approve"]]
                     /\ ev' = [this EXCEPT !.outcome = "approve"]
                     /\ gate' = lifted
                     /\ UNCHANGED procs
                ELSE /\ pending_edits' = popped
                     /\ procs' = [procs EXCEPT ![p] = Kill(@)]
                     /\ tasks' = [tasks EXCEPT ![p] = RejectStep(task, procs[p])]
                     /\ ev' = [this EXCEPT !.outcome = "reject"]
                     /\ gate' = lifted
    /\ UNCHANGED <<sessions, file, shown, edit_ids>>
    /\ UNCHANGED outside

(* await pending.process.wait() in handle_reject, then the message *)
RejectWait(p) ==
    /\ tasks[p].pc = "rwait"
    /\ ~procs[p].alive
    /\ procs' = [procs EXCEPT ![p].waited = TRUE]
    /\ tasks' = [tasks EXCEPT ![p].pc = "done"]
    /\ ev' = NoEv
    /\ UNCHANGED outside
    /\ UNCHANGED <<pending_edits, sessions, file, shown, edit_ids, gate>>

(* handle_approve: query.edit_message_text, then continue_after_approval *)
ApproveNotify(p, sent) ==
    /\ tasks[p].pc = "approve"
    /\ IF sent
       THEN /\ tasks' = [tasks EXCEPT ![p].pc = "cread",
                            ![p].st = LoopState(tasks[p].pending.session_id),
                            ![p].clean = LoopState(tasks[p].pending.session_id),
                            ![p].start = procs[p].pos]
            /\ procs' = [procs EXCEPT ![p].reader = p]
       ELSE /\ tasks' = [tasks EXCEPT ![p].pc = "done", ![p].raised = TRUE]
            /\ procs' = procs
    /\ ev' = NoEv
    /\ UNCHANGED outside
    /\ UNCHANGED <<pending_edits, sessions, file, shown, edit_ids, gate>>

ContReadChunk(p) ==
    /\ tasks[p].pc = "cread"
    /\ \E k \in 1..Min(READ_SIZE, Remaining(p)) :
          LET a == procs[p].pos
              st == ContChunk(tasks[p].st, Chunk(procs[p].recs, a, a + k))
              clean == ContChunk(tasks[p].clean, CleanChunk(procs[p].recs, a, a + k))
          IN  /\ procs' = [procs EXCEPT ![p].pos = a + k,
                              ![p].reader = IF st.status = "reading" THEN p ELSE 0]
              /\ AfterChunk(p, st, clean)
    /\ ev' = NoEv
    /\ UNCHANGED outside
    /\ UNCHANGED <<pending_edits, sessions, file, shown>>

ContReadEof(p) ==
    /\ tasks[p].pc = "cread"
    /\ Remaining(p) = 0
    /\ ~procs[p].alive
    /\ procs' = [procs EXCEPT ![p].reader = 0]
    /\ tasks' = [tasks EXCEPT ![p].pc = "cwait"]
    /\ ev' = NoEv
    /\ UNCHANGED outside
    /\ UNCHANGED <<pending_edits, sessions, file, shown, edit_ids, gate>>

ContReadTimeout(p) ==
    /\ tasks[p].pc = "cread"
    /\ procs[p].alive
    /\ procs' = [procs EXCEPT ![p].reader = 0]
    /\ tasks' = [tasks EXCEPT ![p].pc = "cwait", ![p].timedOut = TRUE]
    /\ ev' = NoEv
    /\ UNCHANGED outside
    /\ UNCHANGED <<pending_edits, sessions, file, shown, edit_ids, gate>>

(* The return of continue_after_approval after await process.wait() *)
ContResult(proc, st) == Complete(st.full_response, st.session_id)

(* await pending.process.wait(), the return, and handle_approve's branch *)
ContWait(p) ==
    /\ tasks[p].pc = "cwait"
    /\ ~procs[p].alive
    /\ LET r == ContResult(procs[p], tasks[p].st) IN
       /\ tasks' = [tasks EXCEPT ![p].pc = "done", ![p].result = r,
                                 ![p].reply = ApproveReply(r)]
       /\ LET m == IF r.status = "complete"
                   THEN OnComplete(Manager, tasks[p].pending.user_id, r)
                   ELSE Manager
          IN  sessions' = m.sessions /\ file' = m.file
    /\ procs' = [procs EXCEPT ![p].waited = TRUE]
    /\ ev' = NoEv
    /\ UNCHANGED outside
    /\ UNCHANGED <<pending_edits, shown, edit_ids, gate>>

-----------------------------------------------------------------------------
(* The agent subprocess exits on its own *)

ProcExit(p, rc) ==
    /\ procs[p].alive
    /\ procs' = [procs EXCEPT ![p].alive = FALSE, ![p].returncode = rc]
    /\ ev' = NoEv
    /\ UNCHANGED outside
    /\ UNCHANGED <<tasks, pending_edits, sessions, file, shown, edit_ids, gate>>

-----------------------------------------------------------------------------
(* Specifications *)

SeqsUpTo(S, n) == UNION {[1..k -> S] : k \in 0..n}

(* update.effective_chat.id *)
Chats == {0}

Kinds == { <<"A", "E">>, <<"R", "2">> }

(* The streams of at most MaxRecs records with at most MaxEdits edits and  *)
(* no record after the result                                              *)
Turns ==
    {recs \in SeqsUpTo(Kinds, MaxRecs) :
        /\ \A i \in 1..(Len(recs) - 1) : recs[i][1] # "R"
        /\ Cardinality({i \in 1..Len(recs) : recs[i] = <<"A", "E">>}) <= MaxEdits}

ToolKinds == { <<"A", "E">>, <<"A", "W">>, <<"A", "B">>, <<"R", "2">> }

StreamKinds ==
    { <<"S", "1">>, <<"A", "hi", "lo">>, <<"A", "E">>, <<"R", "2">>,
      <<"x">>, <<"hi">> }

(* The clock when the bot starts *)
Epoch == [sec |-> 0, usec |-> 0]

(* No SessionManager method called yet *)
NoCall == [op |-> None, user_id |-> 0, arg |-> None, ret |-> None,
           before |-> <<>>]

(* No helper called yet *)
NoIo == [fn |-> None, arg |-> <<>>, out |-> <<>>, from |-> <<>>]

(* No rendering made yet *)
NoFmt == [fn |-> None, old_string |-> <<>>, new_string |-> <<>>,
          file_path |-> <<>>, text |-> <<>>]

Init ==
    /\ procs = <<>>
    /\ tasks = <<>>
    /\ pending_edits = <<>>
    /\ sessions = <<>>
    /\ shown = {}
    /\ edit_ids = 0
    /\ gate = <<>>
    /\ ev = NoEv
    /\ file = NoFile
    /\ now = Epoch
    /\ allowed = {}
    /\ call = NoCall
    /\ io = NoIo
    /\ fmt = NoFmt

(* Every step of every handler but the arrival of a message *)
Handlers ==
    \/ \E p \in DOMAIN procs : ReadChunk(p)
    \/ \E p \in DOMAIN procs : ReadEof(p)
    \/ \E p \in DOMAIN procs : ReadTimeout(p)
    \/ \E p \in DOMAIN procs : WaitExit(p)
    \/ \E p \in DOMAIN procs : \E sent \in BOOLEAN : ShowApproval(p, sent)
    \/ \E p \in DOMAIN procs : StoreEdit(p)
    \/ \E u \in Users : \E a \in {"approve", "reject"} : \E e \in shown :
          Callback(u, a, e)
    \/ \E p \in DOMAIN procs : RejectWait(p)
    \/ \E p \in DOMAIN procs : \E sent \in BOOLEAN : ApproveNotify(p, sent)
    \/ \E p \in DOMAIN procs : ContReadChunk(p)
    \/ \E p \in DOMAIN procs : ContReadEof(p)
    \/ \E p \in DOMAIN procs : ContReadTimeout(p)
    \/ \E p \in DOMAIN procs : ContWait(p)
    \/ \E p \in DOMAIN procs : \E rc \in {0, 1} : ProcExit(p, rc)

(* Turns of several users, each on a stream of Turns *)
Next ==
    \/ \E u \in Users : \E chat \in Chats : \E recs \in Turns :
          Message(u, chat, recs, MaxTurns)
    \/ Handlers

Spec == Init /\ [][Next]_vars

(* One turn of one user over every stream of at most MaxStreamRecs records *)
NextStream ==
    \/ \E chat \in Chats : \E recs \in SeqsUpTo(StreamKinds, MaxStreamRecs) :
          Message(1, chat, recs, 1)
    \/ Handlers

SpecStream == Init /\ [][NextStream]_vars

(* One turn of one user over every sequence of at most MaxToolRecs tool    *)
(* uses and results                                                        *)
NextTools ==
    \/ \E chat \in Chats : \E recs \in SeqsUpTo(ToolKinds, MaxToolRecs) :
          Message(1, chat, recs, 1)
    \/ Handlers

SpecTools == Init /\ [][NextTools]_vars

(* One turn of one user over tool uses of every name *)
NameKinds ==
    { <<"A", "E">>, <<"A", "W">>, <<"A", "M">>, <<"A", "B">>, <<"R", "2">> }

NextNames ==
    \/ \E chat \in Chats : \E recs \in SeqsUpTo(NameKinds, MaxToolRecs) :
          Message(1, chat, recs, 1)
    \/ Handlers

SpecNames == Init /\ [][NextNames]_vars

(* One turn of one user, and callbacks whose data starts with a word that *)
(* is neither approve nor reject: the handler is registered for every     *)
(* callback query                                                         *)
NextActions ==
    \/ NextTools
    \/ \E u \in Users : \E e \in shown : Callback(u, "cancel", e)

SpecActions == Init /\ [][NextActions]_vars

(* One turn of one user and the heartbeat run_claude_streaming starts *)
BeatKinds == { <<"A", "E">>, <<"A", "B">>, <<"R", "2">>, <<"hi">> }

NextBeat ==
    \/ \E chat \in Chats : \E recs \in SeqsUpTo(BeatKinds, MaxRecs) :
          Message(1, chat, recs, 1)
    \/ \E p \in DOMAIN procs : Heartbeat(p)
    \/ Handlers

SpecBeat == Init /\ [][NextBeat]_vars

(* ---- One turn, of any user, under every setting of ALLOWED_USER_IDS ---- *)
InitAuth ==
    /\ procs = <<>>
    /\ tasks = <<>>
    /\ pending_edits = <<>>
    /\ sessions = <<>>
    /\ shown = {}
    /\ edit_ids = 0
    /\ gate = <<>>
    /\ ev = NoEv
    /\ file = NoFile
    /\ now = Epoch
    /\ allowed \in SUBSET Users
    /\ fmt = NoFmt
    /\ call = NoCall
    /\ io = NoIo

NextAuth ==
    \/ \E u \in Users : \E chat \in Chats : \E recs \in Turns :
          Message(u, chat, recs, 1)
    \/ \E u \in Users : Unauthorized(u)
    \/ Handlers

SpecAuth == InitAuth /\ [][NextAuth]_vars

(* ---- The helpers of the handlers, on their own ---- *)
MaxIdLen == 4

MaxMsgLen == 30

MaxLength == 24

(* Characters of an edit id, and the ids *)
IdChars == {"a", "0", "_"}

EditIds == SeqsUpTo(IdChars, MaxIdLen) \ {<<>>}

(* The text of n characters *)
Msg(n) == [i \in 1..n |-> IF i % 2 = 1 THEN "a" ELSE "b"]

(* Everything but io is as the bot starts *)
Idle ==
    /\ procs = <<>>
    /\ tasks = <<>>
    /\ pending_edits = <<>>
    /\ sessions = <<>>
    /\ shown = {}
    /\ edit_ids = 0
    /\ gate = <<>>
    /\ ev = NoEv
    /\ file = NoFile
    /\ now = Epoch
    /\ allowed = {}
    /\ fmt = NoFmt
    /\ call = NoCall

Helper ==
    UNCHANGED <<procs, tasks, pending_edits, sessions, shown, edit_ids, gate,
                ev, file, now, allowed, fmt, call>>

(* The edit id of the request to come *)
InitButtons ==
    /\ Idle
    /\ io \in [fn : {None}, arg : EditIds, out : {<<>>}, from : {<<>>}]

(* show_approval_request: the data of the two buttons *)
ShowButtons ==
    /\ io.fn = None
    /\ io' = [fn |-> "show_approval_request", arg |-> io.arg,
              out |-> <<callback_data(APPROVE, io.arg),
                        callback_data(REJECT, io.arg)>>,
              from |-> <<>>]
    /\ Helper

(* handle_edit_callback on the data of the button pressed *)
PressButton(b) ==
    /\ io.fn = "show_approval_request"
    /\ LET parts == split1(io.out[b])
       IN  io' = [fn |-> "handle_edit_callback", arg |-> io.out[b],
                  out |-> <<Dispatch(parts[1]), parts[2]>>,
                  from |-> <<b, io.arg>>]
    /\ Helper

NextButtons == ShowButtons \/ \E b \in 1..2 : PressButton(b)

SpecButtons == InitButtons /\ [][NextButtons]_vars

(* The arguments of the call of truncate_message to come *)
InitTruncate ==
    /\ Idle
    /\ io \in [fn : {None},
               arg : {<<Msg(n), m>> : n \in 0..MaxMsgLen, m \in 0..MaxLength},
               out : {<<>>}, from : {<<>>}]

Truncate ==
    /\ io.fn = None
    /\ io' = [io EXCEPT !.fn = "truncate_message",
                        !.out = truncate_message(io.arg[1], io.arg[2])]
    /\ Helper

NextTruncate == Truncate

SpecTruncate == InitTruncate /\ [][NextTruncate]_vars

(* ---- The renderings, on their own ---- *)
MaxText == 2

Chars == {"a", "<", NL}

(* One text longer than a message may be, besides all the short ones *)
Long == [i \in 1..(max_len + 1) |-> "a"]

Texts == SeqsUpTo(Chars, MaxText) \cup {Long}

Paths == { <<"/", "d", "/", "a">>, <<"/", "a", "<", "&">> }

(* The arguments of the call to come *)
InitFormat ==
    /\ procs = <<>>
    /\ tasks = <<>>
    /\ pending_edits = <<>>
    /\ sessions = <<>>
    /\ shown = {}
    /\ edit_ids = 0
    /\ gate = <<>>
    /\ ev = NoEv
    /\ file = NoFile
    /\ now = Epoch
    /\ allowed = {}
    /\ call = NoCall
    /\ io = NoIo
    /\ fmt \in [fn : {None}, old_string : Texts, new_string : Texts,
                file_path : Paths, text : {<<>>}]

Pure ==
    UNCHANGED <<procs, tasks, pending_edits, sessions, shown, edit_ids, gate,
                ev, file, now, allowed, call, io>>

FormatDiff ==
    /\ fmt.fn = None
    /\ fmt' = [fmt EXCEPT !.fn = "format_diff",
                          !.text = format_diff(fmt.old_string, fmt.new_string,
                                               fmt.file_path)]
    /\ Pure

(* content is the new_string of the arguments *)
FormatNewFile ==
    /\ fmt.fn = None
    /\ fmt' = [fmt EXCEPT !.fn = "format_new_file",
                          !.text = format_new_file(fmt.new_string, fmt.file_path)]
    /\ Pure

NextFormat == FormatDiff \/ FormatNewFile

SpecFormat == InitFormat /\ [][NextFormat]_vars

(* ---- The SessionManager, on its own ---- *)
MaxClock == 1

(* Directories given to /new and /cwd, and session tokens of the agent *)
Dirs == {DEFAULT_CWD, "/w"}

Tokens == {"s1"}

(* What the handlers pass to update: resume_id=..., cwd=... *)
Kwargs == {[resume_id |-> t] : t \in Tokens} \cup {[cwd |-> d] : d \in Dirs}

Stored(m) ==
    /\ sessions' = m.sessions
    /\ file' = m.file
    /\ UNCHANGED <<procs, tasks, pending_edits, shown, edit_ids, gate, ev,
                   now, allowed, fmt, io>>

GetOrCreate(user_id) ==
    LET m == get_or_create(Manager, user_id)
    IN  /\ call' = [op |-> "get_or_create", user_id |-> user_id, arg |-> None,
                    ret |-> m.sessions[user_id], before |-> sessions]
        /\ Stored(m)

Update(user_id, kwargs) ==
    LET m == update(Manager, user_id, kwargs)
    IN  /\ call' = [op |-> "update", user_id |-> user_id, arg |-> kwargs,
                    ret |-> None, before |-> sessions]
        /\ Stored(m)

Reset(user_id, cwd) ==
    LET m == reset(Manager, user_id, cwd)
    IN  /\ call' = [op |-> "reset", user_id |-> user_id, arg |-> cwd,
                    ret |-> m.sessions[user_id], before |-> sessions]
        /\ Stored(m)

(* The bot is started again: SessionManager(SESSIONS_FILE) *)
Restart ==
    /\ call' = [op |-> "load", user_id |-> 0, arg |-> None, ret |-> None,
                before |-> sessions]
    /\ Stored([sessions |-> load(file), file |-> file])

(* Time passes: within the second, or into the next one *)
Tick ==
    /\ \/ now.usec < MaxClock /\ now' = [now EXCEPT !.usec = @ + 1]
       \/ now.sec < MaxClock /\ now' = [sec |-> now.sec + 1, usec |-> 0]
    /\ UNCHANGED <<procs, tasks, pending_edits, sessions, shown, edit_ids,
                   gate, ev, file, allowed, fmt, call, io>>

NextSessions ==
    \/ \E user_id \in Users : GetOrCreate(user_id)
    \/ \E user_id \in Users, kwargs \in Kwargs : Update(user_id, kwargs)
    \/ \E user_id \in Users, cwd \in Dirs \cup {None} : Reset(user_id, cwd)
    \/ Restart
    \/ Tick

SpecSessions == Init /\ [][NextSessions]_vars

(* ---- Turns, /new and /cwd ---- *)

(* The Application built in main handles one update at a time: a command *)
(* is handled when no other handler is running.                          *)
Idling == \A p \in DOMAIN procs : tasks[p].pc = "done"

(* os.path.isdir *)
isdir(d) == d \in Dirs

(* What a user may type after /new or /cwd; None when nothing *)
Args == Dirs \cup {"/nodir", None}

(* cmd_new: a directory that does not exist is reported and nothing is   *)
(* reset.  call (history) keeps whose session was reset last, and turns   *)
(* how many turns had started by then.                                    *)
CmdNew(u, args) ==
    /\ Idling
    /\ is_authorized(u)
    /\ LET cwd == IF args # None THEN args ELSE DEFAULT_CWD
           m == IF isdir(cwd) THEN reset(Manager, u, cwd) ELSE Manager
       IN  /\ sessions' = m.sessions
           /\ file' = m.file
           /\ call' = IF isdir(cwd)
                       THEN [op |-> "cmd_new", user_id |-> u, arg |-> None,
                             ret |-> None, before |-> <<>>,
                             turns |-> Len(procs)]
                       ELSE call
    /\ ev' = NoEv
    /\ UNCHANGED <<procs, tasks, pending_edits, shown, edit_ids, gate, now,
                   allowed, fmt, io>>

(* cmd_cwd: the session is fetched, and its cwd set when a directory that *)
(* exists is given                                                        *)
CmdCwd(u, args) ==
    /\ Idling
    /\ is_authorized(u)
    /\ LET m1 == get_or_create(Manager, u)
           m == IF args # None /\ isdir(args)
                THEN update(m1, u, [cwd |-> args]) ELSE m1
       IN  /\ sessions' = m.sessions
           /\ file' = m.file
    /\ ev' = NoEv
    /\ UNCHANGED <<procs, tasks, pending_edits, shown, edit_ids, gate, now,
                   allowed, fmt, call, io>>

(* The streams of the turn: the result with or without an edit before it, *)
(* the agent naming the session first or not; an edit and a new file, in   *)
(* either order                                                            *)
CmdTurns ==
    { << <<"A", "E">>, <<"R", "2">> >>, << <<"R", "2">> >>,
      << <<"S", "1">>, <<"A", "E">>, <<"R", "2">> >>,
      << <<"A", "E">>, <<"A", "W">> >>, << <<"A", "W">>, <<"A", "E">> >> }

NextCommands ==
    \/ \E u \in Users : \E chat \in Chats : \E recs \in CmdTurns :
          Message(u, chat, recs, 1)
    \/ \E u \in Users : \E args \in Args : CmdNew(u, args)
    \/ \E u \in Users : \E args \in Args : CmdCwd(u, args)
    \/ Handlers

SpecCommands == Init /\ [][NextCommands]_vars

-----------------------------------------------------------------------------
(* Properties *)

(* A PendingEdit's subprocess is held by no handler. *)
EntryProcessIdle ==
    \A e \in DOMAIN pending_edits : tasks[pending_edits[e].process].pc = "done"

Procs == DOMAIN procs

(* The originating user has decided edit id e. *)
Decided(e) == e \in 1..edit_ids /\ \A p \in Procs : gate[p] # e

DecidedNext(e) == e \in 1..edit_ids' /\ \A p \in DOMAIN procs' : gate'[p] # e

(* C1: once a read loop has decoded an Edit or Write tool_use, the          *)
(* subprocess has no reader, its stdout is not read further and it is not   *)
(* killed until the originating user's decision on the resulting edit id is *)
(* processed; the pending_approval outcome and the stored PendingEdit carry *)
(* that same subprocess.                                                    *)
C1_Suspended ==
    /\ \A p \in Procs : gate[p] # 0 =>
          /\ procs[p].reader = 0
          /\ tasks[p].pc \in {"show", "store", "done"}
          /\ tasks[p].pc \in {"show", "store"} =>
                /\ tasks[p].result.status = "pending_approval"
                /\ tasks[p].result.edit_id = gate[p]
                /\ tasks[p].result.process = p
    /\ \A e \in DOMAIN pending_edits : gate[pending_edits[e].process] = e

C1_ApprovalGate ==
    /\ []C1_Suspended
    /\ [][\A p \in Procs : gate[p] # 0 /\ gate'[p] = gate[p] =>
              /\ procs'[p].pos = procs[p].pos
              /\ procs'[p].kills = procs[p].kills
              /\ procs'[p].waited = procs[p].waited]_vars

(* a chained edit is awaiting its decision with output still unread *)
C1_Witness ==
    \E p \in Procs :
        /\ tasks[p].kind = "cb"
        /\ gate[p] \in DOMAIN pending_edits
        /\ Remaining(p) > 0

(* C2: for every edit id, at most one handle_edit_callback invocation runs  *)
(* handle_approve or handle_reject, and it is the originating user's; every *)
(* later invocation for that id finds it absent, reports it expired and     *)
(* touches neither the table nor any subprocess, whatever was resolved for  *)
(* other ids in between.                                                    *)
C2_ResolveOnce ==
    /\ [](\A e \in 1..edit_ids : Decided(e) => e \notin DOMAIN pending_edits)
    /\ [][ev' # NoEv =>
            /\ ev'.outcome \in {"approve", "reject"} =>
                  ev'.own /\ ~Decided(ev'.edit) /\ DecidedNext(ev'.edit)
            /\ Decided(ev'.edit) /\ ev'.outcome \notin {"approve", "reject"} =>
                  /\ ev'.outcome = "expired"
                  /\ UNCHANGED <<procs, tasks, pending_edits, sessions>>]_vars

(* an id is found expired while another id is still pending *)
C2_Witness ==
    /\ ev.outcome = "expired"
    /\ Decided(ev.edit)
    /\ \E e \in DOMAIN pending_edits : e # ev.edit

(* C3: a callback for an existing edit id by a user other than the entry's  *)
(* leaves the entry in pending_edits with every field unchanged and reads   *)
(* or kills no subprocess; the pop and the put-back are one step, so no     *)
(* other task sees the entry absent.                                        *)
C3_WrongUserKeepsEntry ==
    [][ev' # NoEv /\ ev'.edit \in DOMAIN pending_edits /\ ~ev'.own =>
          /\ ev'.outcome = "unauthorized"
          /\ UNCHANGED <<procs, tasks, pending_edits, sessions, gate>>]_vars

C3_Witness ==
    /\ ev.outcome = "unauthorized"
    /\ ev.edit \in DOMAIN pending_edits
    /\ \A p \in Procs : procs[p].kills = 0

(* handle_approve has run to its end for the task of process p *)
Approved(p) ==
    tasks[p].kind = "cb" /\ tasks[p].action = "approve" /\ tasks[p].pc = "done"

(* C4: when continue_after_approval returned pending_approval, handle_approve *)
(* has inserted exactly one entry, keyed by the new edit id, with the chat_id, *)
(* user_id, cwd and process of the approved entry; when it returned complete  *)
(* or error, no entry was inserted and the approved id stays absent.          *)
C4_ChainedEntry ==
    \A p \in Procs : Approved(p) =>
        LET t == tasks[p]
            mine == {e \in DOMAIN pending_edits : pending_edits[e].process = p}
        IN  /\ t.edit \notin DOMAIN pending_edits
            /\ IF t.result.status = "pending_approval"
               THEN /\ mine = {t.result.edit_id}
                    /\ t.result.edit_id # t.edit
                    /\ \A e \in mine :
                          /\ pending_edits[e].chat_id = t.pending.chat_id
                          /\ pending_edits[e].user_id = t.pending.user_id
                          /\ pending_edits[e].cwd = t.pending.cwd
                          /\ pending_edits[e].process = t.pending.process
               ELSE mine = {}

(* The continuation token last seen: the session_id of the last event that *)
(* carries one, or the token the call started with.                        *)
RECURSIVE LatestToken(_, _)
LatestToken(token, events) ==
    IF events = <<>> THEN token
    ELSE LatestToken(Get(Head(events).session_id, token), Tail(events))

(* C5: a further Edit or Write decoded by continue_after_approval returns  *)
(* pending_approval with a new edit id, the process of the approved entry, *)
(* and the session_id of the latest continuation token seen up to it.      *)
C5_ChainedEdits ==
    \A p \in Procs :
        tasks[p].kind = "cb" /\ tasks[p].result.status = "pending_approval" =>
            /\ tasks[p].result.edit_id # tasks[p].edit
            /\ tasks[p].result.edit_id = edit_ids
            /\ tasks[p].result.process = tasks[p].pending.process
            /\ tasks[p].result.session_id =
                   LatestToken(tasks[p].pending.session_id, tasks[p].st.handled)

(* The stream ends with a result event that carries a session_id. *)
EndsWithResult(recs) ==
    /\ recs # <<>>
    /\ IsJson(recs[Len(recs)])
    /\ JsonLoads(recs[Len(recs)]).type = "result"
    /\ JsonLoads(recs[Len(recs)]).session_id # Absent

(* C6: once handle_approve has returned from a turn it took to completion,   *)
(* on a stream that ends with a result event carrying a session_id, the     *)
(* originating user's resume_id is that session_id.                         *)
C6_ResumeAfterApproval ==
    \A p \in Procs :
        /\ Approved(p)
        /\ ~tasks[p].raised
        /\ ~tasks[p].timedOut
        /\ tasks[p].result.status = "complete"
        /\ EndsWithResult(procs[p].recs)
        => /\ tasks[p].pending.user_id \in DOMAIN sessions
           /\ sessions[tasks[p].pending.user_id].resume_id =
                  JsonLoads(procs[p].recs[Len(procs[p].recs)]).session_id

(* C7: after a read of run_claude_streaming timed out, the subprocess has   *)
(* been killed, the call does not wait on a running process, and it returns *)
(* error, never complete.                                                   *)
C7_ReadTimeout ==
    \A p \in Procs : tasks[p].kind = "msg" /\ tasks[p].timedOut =>
        /\ procs[p].kills = 1
        /\ ~(tasks[p].pc = "wait" /\ procs[p].alive)
        /\ tasks[p].result.status # "complete"
        /\ tasks[p].pc = "done" => tasks[p].result.status = "error"

Rejected(p) == tasks[p].kind = "cb" /\ tasks[p].action = "reject"

(* C8: after the originating user's reject the process has been killed      *)
(* exactly once and, unless kill raised because it had already exited, is   *)
(* waited for before the rejection message; no exception leaves             *)
(* handle_reject; the entry is gone and the stdout is never read again.     *)
C8_Rejected ==
    \A p \in Procs : Rejected(p) =>
        /\ tasks[p].pc \in {"rwait", "done"}
        /\ procs[p].kills = 1
        /\ ~procs[p].alive
        /\ tasks[p].pc = "done" => procs[p].waited \/ procs[p].returncode \in {0, 1}
        /\ procs[p].returncode = -9 /\ tasks[p].pc = "done" => procs[p].waited
        /\ ~tasks[p].raised
        /\ tasks[p].edit \notin DOMAIN pending_edits
        /\ \A e \in DOMAIN pending_edits : pending_edits[e].process # p
        /\ procs[p].reader = 0

C8_Reject ==
    /\ []C8_Rejected
    /\ [][\A p \in Procs : Rejected(p) =>
              /\ Rejected(p)'
              /\ procs'[p].pos = procs[p].pos
              /\ procs'[p].kills = procs[p].kills]_vars

(* kill raised on a process that had exited; the rejection still completed *)
C8_Witness ==
    \E p \in Procs :
        /\ Rejected(p)
        /\ tasks[p].pc = "done"
        /\ procs[p].returncode \in {0, 1}
        /\ ~procs[p].waited

(* run_claude_streaming's loop fed one record per read *)
RECURSIVE RunRecords(_, _)
RunRecords(st, recs) ==
    IF recs = <<>> \/ st.status # "reading" THEN st
    ELSE RunRecords(RunChunk(st, Head(recs) \o <<NL>>), Tail(recs))

(* C9: however a stream of JSON records is split into reads, the events    *)
(* run_claude_streaming has handled when its loop ends are those it handles *)
(* when every read returns one record.                                     *)
C9_ChunkingIndependent ==
    \A p \in Procs :
        /\ tasks[p].kind = "msg"
        /\ tasks[p].pc # "read"
        /\ ~tasks[p].timedOut
        /\ \A i \in 1..Len(procs[p].recs) : IsJson(procs[p].recs[i])
        => tasks[p].st.handled = RunRecords(LoopState(None), procs[p].recs).handled

(* What a read loop's caller can tell of it *)
View(st) ==
    [full_response |-> st.full_response, session_id |-> st.session_id,
     handled |-> st.handled, status |-> st.status, tool |-> st.tool]

(* C10: records that are not JSON, wherever they stand in the stream, leave *)
(* the events both read loops handle, their outcome and their not raising   *)
(* what they are on the stream without those records.                       *)
C10_MalformedSkipped ==
    \A p \in Procs : View(tasks[p].st) = View(tasks[p].clean)

(* The same for records that are text. *)
TextJunkSkipped ==
    \A p \in Procs :
        (\A i \in 1..Len(procs[p].recs) : procs[p].recs[i] # <<"hi">>)
            => View(tasks[p].st) = View(tasks[p].clean)

(* The token of the most recent system event that carries one *)
RECURSIVE SystemToken(_, _)
SystemToken(token, events) ==
    IF events = <<>> THEN token
    ELSE SystemToken(IF Head(events).type = "system"
                     THEN Get(Head(events).session_id, token) ELSE token,
                     Tail(events))

StreamEnded(p) ==
    /\ tasks[p].kind = "msg"
    /\ tasks[p].pc = "done"
    /\ ~tasks[p].timedOut
    /\ tasks[p].st.status = "reading"

-----------------------------------------------------------------------------
(* Renderings *)

unescape1(c) ==
    CASE c = "&amp;" -> "&"
      [] c = "&lt;" -> "<"
      [] c = "&gt;" -> ">"
      [] c = "&quot;" -> "\""
      [] c = "&#x27;" -> "'"
      [] OTHER -> c

(* The pages of a rendering: the one text returned *)
Pages(text) == <<text>>

(* What a page shows between its code tags, with the escaping undone *)
RawContent(text) ==
    IF \E i \in 1..Len(text) : text[i] = CODE_OPEN
    THEN LET a == CHOOSE i \in 1..Len(text) : text[i] = CODE_OPEN
             b == CHOOSE i \in 1..Len(text) : text[i] = CODE_CLOSE
         IN  [i \in 1..(b - a - 1) |-> unescape1(text[a + i])]
    ELSE <<>>

RECURSIVE AllContent(_)
AllContent(pages) ==
    IF pages = <<>> THEN <<>>
    ELSE RawContent(Head(pages)) \o AllContent(Tail(pages))

Has(text, item) == \E i \in 1..Len(text) : text[i] = item

DiffCalled == fmt.fn = "format_diff"

(* C13: whatever the length of the old and new strings, the raw content *)
(* of the pages of format_diff, put end to end, is every old line marked *)
(* removed and then every new line marked added, the blank separator    *)
(* apart, and nothing is cut off.                                        *)
C13_Lossless ==
    DiffCalled /\ fmt.old_string # fmt.new_string
    => LET lines == SplitLines(AllContent(Pages(fmt.text)))
       IN  /\ SelectSeq(lines, LAMBDA l : l # <<>>)
                  = Marked("-", splitlines(fmt.old_string))
                        \o Marked("+", splitlines(fmt.new_string))
           /\ ~Has(fmt.text, TRUNCATED)

Markup == {"<", ">", "&"}

(* The part of a rendering after its filename header *)
Body(text) ==
    LET b == CHOOSE i \in 1..Len(text) : text[i] = B_CLOSE
    IN  SubSeq(text, b + 1, Len(text))

(* C14: whatever the file path, the old and the new content, no <, > or & *)
(* of theirs stands unescaped anywhere in the text that format_diff or    *)
(* format_new_file renders, the filename header included.                 *)
C14_Escaped ==
    fmt.fn # None => \A i \in 1..Len(fmt.text) : fmt.text[i] \notin Markup

(* The same of the body alone: the content is escaped *)
BodyEscaped ==
    fmt.fn # None
    => \A i \in 1..Len(Body(fmt.text)) : Body(fmt.text)[i] \notin Markup

Markers == {"-", "+"}

(* C15: for old_string equal to new_string, both empty included,         *)
(* format_diff returns the filename header and the 'No changes' notice   *)
(* and nothing else: no line marked removed, no line marked added.       *)
C15_NoChanges ==
    DiffCalled /\ fmt.old_string = fmt.new_string
    => /\ SubSeq(fmt.text, 1, Len(fmt.text) - Len(Body(fmt.text)))
              = <<B_OPEN>> \o filename(fmt.file_path) \o <<B_CLOSE>>
       /\ SelectSeq(Body(fmt.text), LAMBDA c : c # NL) = <<NO_CHANGES>>
       /\ \A i \in 1..Len(fmt.text) : fmt.text[i] \notin Markers

C15_Witness ==
    /\ DiffCalled
    /\ fmt.old_string = fmt.new_string
    /\ fmt.old_string = <<"a", NL>>
    /\ Has(fmt.text, NO_CHANGES)

C15_WitnessEmpty ==
    /\ DiffCalled
    /\ fmt.old_string = <<>> /\ fmt.new_string = <<>>
    /\ Has(fmt.text, NO_CHANGES)

(* C16: for old_string different from new_string, format_diff renders      *)
(* every line of old_string once, in order, with the removed marker, then   *)
(* one blank line when both sides have lines, then every line of            *)
(* new_string once, in order, with the added marker, and 'No changes' is    *)
(* not shown.                                                               *)
C16_RemovedThenAdded ==
    DiffCalled /\ fmt.old_string # fmt.new_string
    => LET removed == Marked("-", splitlines(fmt.old_string))
           added == Marked("+", splitlines(fmt.new_string))
           blank == IF removed # <<>> /\ added # <<>> THEN << <<>> >> ELSE <<>>
       IN  /\ SplitLines(RawContent(fmt.text)) = removed \o blank \o added
           /\ ~Has(fmt.text, NO_CHANGES)

(* The same for arguments that one message holds *)
C16_ShortInputs ==
    Len(join(formatted_lines(fmt.old_string, fmt.new_string))) <= max_len
    => C16_RemovedThenAdded

-----------------------------------------------------------------------------
(* The SessionManager *)

(* C17: after any sequence of get_or_create, update and reset, a          *)
(* SessionManager loaded from the same file holds the mapping of users to *)
(* sessions (id, cwd, created_at, resume_id) that the first one holds in  *)
(* memory.                                                                *)
C17_Persisted == load(file) = sessions

C17_Witness ==
    /\ call.op = "update"
    /\ Users \subseteq DOMAIN sessions
    /\ \E u \in Users : sessions[u].resume_id # None /\ sessions[u].cwd # DEFAULT_CWD
    /\ \E u \in Users : sessions[u].created_at # Epoch
    /\ file.exists
    /\ load(file) = sessions

(* C18: reset(user, cwd) puts a new Session in the place of the user's:  *)
(* its resume_id is None and its cwd is the one given, DEFAULT_CWD when  *)
(* none is given, whatever the session before held; get_or_create called *)
(* next returns that session.                                            *)
C18_Reset ==
    call.op = "reset"
    => LET session == sessions[call.user_id]
       IN  /\ session.resume_id = None
           /\ session.cwd = (IF call.arg = None THEN DEFAULT_CWD ELSE call.arg)
           /\ call.ret = session
           /\ get_or_create(Manager, call.user_id).sessions[call.user_id] = session

(* A reset of a session that had a token and another directory *)
C18_Witness ==
    /\ call.op = "reset"
    /\ call.user_id \in DOMAIN call.before
    /\ call.before[call.user_id].resume_id # None
    /\ call.before[call.user_id].cwd # DEFAULT_CWD
    /\ call.arg = None
    /\ sessions[call.user_id].resume_id = None
    /\ sessions[call.user_id].cwd = DEFAULT_CWD

Methods == {"get_or_create", "update", "reset"}

(* The session of user w is what it was before the last call *)
Untouched(w) ==
    /\ w \in DOMAIN sessions <=> w \in DOMAIN call.before
    /\ w \in DOMAIN sessions => sessions[w] = call.before[w]

(* C19: a call for one user leaves the session of every other user as it *)
(* was; get_or_create for a user that has a session returns it with id,  *)
(* cwd and resume_id as they were; update leaves in the user's session   *)
(* the values it was given and, in the other fields, the values written  *)
(* before.                                                               *)
C19_Isolated ==
    call.op \in Methods
    => LET u == call.user_id
       IN  /\ \A w \in Users \ {u} : Untouched(w)
           /\ call.op = "get_or_create" /\ u \in DOMAIN call.before
              => Untouched(u) /\ call.ret = call.before[u]
           /\ call.op = "update"
              => /\ \A k \in DOMAIN call.arg : sessions[u][k] = call.arg[k]
                 /\ u \in DOMAIN call.before
                    => \A k \in DOMAIN sessions[u] \ DOMAIN call.arg :
                           sessions[u][k] = call.before[u][k]

(* An update for one user beside a session of another that holds values *)
C19_Witness ==
    /\ call.op = "update"
    /\ \E w \in Users \ {call.user_id} :
           /\ w \in DOMAIN sessions
           /\ sessions[w].resume_id # None
           /\ sessions[w].cwd # DEFAULT_CWD
    /\ call.arg = [cwd |-> DEFAULT_CWD]
    /\ call.user_id \in DOMAIN call.before
    /\ call.before[call.user_id].cwd # DEFAULT_CWD
    /\ sessions[call.user_id].cwd = DEFAULT_CWD

(* get_or_create for a user whose session holds values *)
C19_WitnessExisting ==
    /\ call.op = "get_or_create"
    /\ call.user_id \in DOMAIN call.before
    /\ call.ret.resume_id # None
    /\ call.ret.cwd # DEFAULT_CWD

-----------------------------------------------------------------------------
(* Authorization *)

(* C20: with ALLOWED_USER_IDS not empty, a message of a user that is not *)
(* on the list spawns no subprocess, creates or changes no session and   *)
(* adds no pending_edits entry, and is answered 'Unauthorized.'; with    *)
(* the list empty every user is authorized.                              *)
C20_Unauthorized ==
    /\ allowed # {}
       => /\ \A p \in Procs : tasks[p].user \in allowed
          /\ DOMAIN sessions \subseteq allowed
          /\ \A e \in DOMAIN pending_edits : pending_edits[e].user_id \in allowed
    /\ call.op = "handle_message"
       => /\ allowed # {} /\ call.user_id \notin allowed
          /\ call.ret = UNAUTHORIZED
          /\ call.before = sessions \/ DOMAIN sessions \subseteq allowed
    /\ allowed = {} => \A u \in Users : is_authorized(u)

(* A user on the list has an edit waiting, and a user off it was turned away *)
C20_Witness ==
    /\ allowed # {}
    /\ call.op = "handle_message"
    /\ call.user_id \notin allowed
    /\ pending_edits # <<>>

(* Nobody is listed and every user has a turn under way *)
C20_WitnessEmpty ==
    /\ allowed = {}
    /\ procs # <<>>
    /\ \E p \in Procs : tasks[p].user \notin {1}

-----------------------------------------------------------------------------
(* Final messages *)

Completed(p) == tasks[p].pc = "done" /\ tasks[p].result.status = "complete"

(* C21: a turn that resolves to complete with an empty response, in      *)
(* handle_message or after an approval in handle_approve, is answered    *)
(* with the 'No response' notice, so that every completed turn has its   *)
(* final message.                                                        *)
C21_NoResponseNotice ==
    \A p \in Procs :
        Completed(p)
        => /\ tasks[p].reply # None
           /\ ~Truthy(tasks[p].result.response) => tasks[p].reply = NO_RESPONSE

(* The same of the turns that handle_message resolves *)
NoResponseInMessage ==
    \A p \in Procs : tasks[p].kind = "msg" => (Completed(p) =>
        /\ tasks[p].reply # None
        /\ ~Truthy(tasks[p].result.response) => tasks[p].reply = NO_RESPONSE)

-----------------------------------------------------------------------------
(* Helpers *)

(* C22: for every edit id, the data that show_approval_request attaches  *)
(* to the accept button parses in handle_edit_callback to approve and    *)
(* that edit id, and the data of the reject button to reject and that    *)
(* edit id.                                                              *)
C22_RoundTrip ==
    io.fn = "handle_edit_callback"
    => /\ io.out[1] = (IF io.from[1] = 1 THEN "approve" ELSE "reject")
       /\ io.out[2] = io.from[2]

(* The reject button of an id that holds the separator has been pressed *)
C22_Witness ==
    /\ io.fn = "handle_edit_callback"
    /\ io.from[1] = 2
    /\ \E i \in 1..Len(io.from[2]) : io.from[2][i] = "_"
    /\ io.out = <<"reject", io.from[2]>>

C22_WitnessApprove ==
    /\ io.fn = "handle_edit_callback"
    /\ io.from[1] = 1
    /\ io.out = <<"approve", io.from[2]>>

EndsWith(text, mark) ==
    /\ Len(text) >= Len(mark)
    /\ SubSeq(text, Len(text) - Len(mark) + 1, Len(text)) = mark

(* C23: for every text and every max_length, truncate_message returns at *)
(* most max_length characters: the text itself when it has at most       *)
(* max_length, and otherwise a text that ends with the '[Truncated]'     *)
(* marker.                                                               *)
C23_Truncated ==
    io.fn = "truncate_message"
    => LET text == io.arg[1]
           max_length == io.arg[2]
       IN  /\ Len(io.out) <= max_length
           /\ Len(text) <= max_length => io.out = text
           /\ Len(text) > max_length => EndsWith(io.out, TRUNCATED_MARK)

(* The same for a max_length that leaves room for the marker *)
C23_RoomForMark == io.arg[2] >= MARK_ROOM => C23_Truncated

-----------------------------------------------------------------------------
(* The table and the readers *)

(* C24: in every reachable state, an approval request that is displayed   *)
(* with its buttons and is not decided yet has its entry in pending_edits *)
(* under its edit id (one, the table being keyed by the id); a decision   *)
(* callback that comes right after the message was sent, by               *)
(* handle_message or by handle_approve for a chained edit, does not find  *)
(* the id absent.                                                         *)
C24_EntryPerRequest ==
    /\ \A e \in shown : ~Decided(e) => e \in DOMAIN pending_edits
    /\ ev.outcome = "expired" => Decided(ev.edit)

(* The same once the handler that sent the request has gone past its insertion *)
EntryAfterStore ==
    \A e \in shown :
        ~Decided(e) /\ (\A p \in Procs : gate[p] = e => tasks[p].pc # "store")
        => e \in DOMAIN pending_edits

(* A callback finds absent only ids that are decided or not stored yet *)
ExpiredOnlyInWindow ==
    ev.outcome = "expired"
    => \/ Decided(ev.edit)
       \/ \E p \in Procs : gate[p] = ev.edit /\ tasks[p].pc = "store"

Reading(p) == tasks[p].pc \in {"read", "cread"}

(* C25: under every interleaving of message handlers and callbacks, at    *)
(* most one task reads the stdout of a subprocess: a subprocess whose     *)
(* entry is in pending_edits has no reader, a callback takes a subprocess *)
(* over only from a handler that has ended, and the entry is out of the   *)
(* table before continue_after_approval reads.                            *)
C25_OneReader ==
    /\ [](\A e \in DOMAIN pending_edits :
             LET p == pending_edits[e].process
             IN  procs[p].reader = 0 /\ tasks[p].pc = "done")
    /\ [](\A p \in Procs :
             /\ procs[p].reader # 0 => procs[p].reader = p /\ Reading(p)
             /\ tasks[p].kind = "cb" /\ tasks[p].pc \in {"approve", "cread"}
                => tasks[p].edit \notin DOMAIN pending_edits)
    /\ [][\A p \in Procs :
             tasks'[p] # tasks[p] /\ tasks'[p].pc \in {"approve", "rwait"}
             => /\ tasks[p].pc = "done" /\ procs[p].reader = 0
                /\ tasks'[p].edit \in DOMAIN pending_edits
                /\ tasks'[p].edit \notin DOMAIN pending_edits']_vars

(* handle_approve reads the subprocess of an entry it took, while the     *)
(* subprocess of another turn waits in the table                          *)
C25_Witness ==
    \E p \in Procs :
        /\ tasks[p].kind = "cb"
        /\ tasks[p].pc = "cread"
        /\ procs[p].reader = p
        /\ procs[p].pos > 0
        /\ pending_edits # <<>>

-----------------------------------------------------------------------------
(* Suspension and resumption *)

(* The events of a stream of JSON records *)
Events(recs) == [i \in 1..Len(recs) |-> JsonLoads(recs[i])]

AllJson(recs) == \A i \in 1..Len(recs) : IsJson(recs[i])

(* Every event handled on subprocess p, by the call that created it and *)
(* by the calls that resumed it                                         *)
HandledSoFar(p) == tasks[p].prior \o tasks[p].st.handled

IsPrefix(s, t) == Len(s) <= Len(t) /\ SubSeq(t, 1, Len(s)) = s

(* The stream of p has been read to its end by calls that did not raise *)
ReadToEnd(p) ==
    /\ tasks[p].pc = "done"
    /\ tasks[p].result.status = "complete"
    /\ ~tasks[p].timedOut
    /\ ~tasks[p].raised

(* C26: for every stream and every chunking, the events handled by       *)
(* run_claude_streaming up to the suspending tool_use, followed by those *)
(* handled by the calls of continue_after_approval after it, are the     *)
(* events of the stream in order, records that were in the buffer at the *)
(* suspension included.                                                  *)
C26_NoEventLost ==
    \A p \in Procs :
        AllJson(procs[p].recs)
        => /\ IsPrefix(HandledSoFar(p), Events(procs[p].recs))
           /\ ReadToEnd(p) => HandledSoFar(p) = Events(procs[p].recs)

(* continue_after_approval's loop fed one record per read *)
RECURSIVE ContRecords(_, _)
ContRecords(st, recs) ==
    IF recs = <<>> \/ st.status # "reading" THEN st
    ELSE ContRecords(ContChunk(st, Head(recs) \o <<NL>>), Tail(recs))

(* The records of the stream that lie after its first n units *)
RecordsAfter(recs, n) ==
    LET k == CHOOSE i \in 0..Len(recs) : Len(Bytes(SubSeq(recs, 1, i))) = n
    IN  SubSeq(recs, k + 1, Len(recs))

AtRecordEnd(recs, n) ==
    \E i \in 0..Len(recs) : Len(Bytes(SubSeq(recs, 1, i))) = n

(* The loop of continue_after_approval on p has ended, without timeout *)
(* and without exception                                               *)
ContLoopEnded(p) ==
    /\ tasks[p].kind = "cb"
    /\ tasks[p].action = "approve"
    /\ tasks[p].pc \notin {"approve", "cread"}
    /\ ~tasks[p].timedOut
    /\ ~tasks[p].raised
    /\ tasks[p].st.status # "raised"

(* C27: however the records that continue_after_approval reads are split *)
(* into stdout chunks, a record cut by a read included, the events it    *)
(* decodes and the outcome it returns are those it has with one record   *)
(* per read.                                                             *)
C27_ContChunking ==
    \A p \in Procs :
        /\ ContLoopEnded(p)
        /\ AllJson(procs[p].recs)
        /\ AtRecordEnd(procs[p].recs, tasks[p].start)
        => View(tasks[p].st)
               = View(ContRecords(LoopState(tasks[p].pending.session_id),
                                  RecordsAfter(procs[p].recs, tasks[p].start)))

-----------------------------------------------------------------------------
(* Failures and exits *)

(* A call of the chat transport raised in the handler that holds p: the *)
(* approval request could not be sent, or the approval not acknowledged *)
TransportFailed(p) ==
    /\ tasks[p].raised
    /\ tasks[p].st.status # "raised"
    /\ tasks[p].action # "reject"

Tracked(p) == \E e \in DOMAIN pending_edits : pending_edits[e].process = p

(* C28: a failure of a call of the chat transport does not abort the turn *)
(* under way: after it, the subprocess is tracked in pending_edits, or is *)
(* being read to completion, or has ended and been waited for; it is not  *)
(* left with no entry and no reader.                                      *)
C28_TransportFailure ==
    \A p \in Procs :
        TransportFailed(p)
        => \/ Tracked(p)
           \/ tasks[p].pc # "done"
           \/ ~procs[p].alive /\ procs[p].waited

(* The turn on p has resolved: complete, error, or rejected *)
Resolved(p) ==
    /\ tasks[p].pc = "done"
    /\ \/ tasks[p].result.status \in {"complete", "error"}
       \/ Rejected(p)

(* The exit of p has been collected: by await process.wait(), or by the *)
(* event loop before a kill() that raised ProcessLookupError            *)
Collected(p) ==
    \/ procs[p].waited
    \/ Rejected(p) /\ ~procs[p].alive /\ procs[p].returncode # -9

(* C29: a subprocess whose turn has resolved to complete, error or       *)
(* rejected has been waited on for its exit before the handle is         *)
(* dropped, on every path: end of the stream, read timeout, non-zero     *)
(* exit, an exception caught inside continue_after_approval, rejection.  *)
C29_WaitedOn == \A p \in Procs : Resolved(p) => Collected(p)

(* The same on the paths other than the caught exception *)
WaitedUnlessCaught ==
    \A p \in Procs :
        Resolved(p) /\ tasks[p].st.status # "raised" => Collected(p)

-----------------------------------------------------------------------------
(* The result event *)

ResultsIn(events) == {i \in 1..Len(events) : events[i].type = "result"}

LastResult(events) ==
    events[CHOOSE i \in ResultsIn(events) : \A j \in ResultsIn(events) : j <= i]

(* C30: once run_claude_streaming has handled a result event, the       *)
(* response and the session_id it returns on complete are those of the  *)
(* result event: no assistant text and no system event decoded after it *)
(* changes them.                                                        *)
C30_ResultFinal ==
    \A p \in Procs :
        /\ tasks[p].kind = "msg"
        /\ Completed(p)
        /\ ResultsIn(tasks[p].st.handled) # {}
        => LET data == LastResult(tasks[p].st.handled)
           IN  /\ tasks[p].result.response = Get(data.result, "")
               /\ tasks[p].result.session_id = Get(data.session_id, None)

(* The same when the result event is the last event handled *)
ResultLastIsFinal ==
    \A p \in Procs :
        /\ tasks[p].kind = "msg"
        /\ Completed(p)
        /\ Len(tasks[p].st.handled) \in ResultsIn(tasks[p].st.handled)
        => LET data == LastResult(tasks[p].st.handled)
           IN  /\ tasks[p].result.response = Get(data.result, "")
               /\ tasks[p].result.session_id = Get(data.session_id, None)

(* The names of the tool_use blocks of an event *)
ToolNames(data) ==
    {data.content[i].name :
        i \in {j \in 1..Len(data.content) : data.content[j].type = "tool_use"}}

(* The last event the loop of p's task has dispatched *)
LastHandled(p) == tasks[p].st.handled[Len(tasks[p].st.handled)]

(* C31: a read loop, run_claude_streaming or continue_after_approval,       *)
(* returns pending_approval if and only if the assistant event it has just  *)
(* decoded holds a tool_use block named exactly Edit or Write; after a      *)
(* tool_use of any other name the loop is still reading.                    *)
C31_OnlyEditWrite ==
    \A p \in Procs :
        LET suspended == tasks[p].st.status = "pending_approval"
            named == /\ tasks[p].st.handled # <<>>
                     /\ LastHandled(p).type = "assistant"
                     /\ ToolNames(LastHandled(p)) \cap {"Edit", "Write"} # {}
        IN  /\ suspended <=> named
            /\ suspended <=> tasks[p].result.status = "pending_approval"
            /\ suspended => tasks[p].st.tool.name \in {"Edit", "Write"}

(* after the approval of an edit the loop went past a MultiEdit and a Bash *)
(* tool_use and is still reading                                           *)
C31_Witness ==
    \E p \in Procs :
        /\ tasks[p].kind = "cb"
        /\ tasks[p].pc = "cread"
        /\ Len(tasks[p].st.handled) = 2
        /\ ToolNames(tasks[p].st.handled[1]) = {"MultiEdit"}
        /\ ToolNames(tasks[p].st.handled[2]) = {"Bash"}

(* The tool_use block on which the loop of p's task returned: the first   *)
(* block named Edit or Write of the event it dispatched last              *)
Trigger(p) ==
    LET content == LastHandled(p).content
        hits == {i \in 1..Len(content) :
                    /\ content[i].type = "tool_use"
                    /\ content[i].name \in {"Edit", "Write"}}
    IN  content[CHOOSE i \in hits : \A j \in hits : i <= j]

(* The outcome r carries the payload of the block *)
Carries(r, block) ==
    /\ r.tool_name = block.name
    /\ r.file_path = block.input.file_path
    /\ block.name = "Edit" =>
          /\ r.old_string = block.input.old_string
          /\ r.new_string = block.input.new_string
    /\ block.name = "Write" =>
          /\ r.old_string = ""
          /\ r.new_string = block.input.content

(* C32: a pending_approval outcome carries the payload of the tool_use      *)
(* block that triggered it (tool_name, file_path, for Edit old_string and   *)
(* new_string, for Write an empty old_string and the content as             *)
(* new_string), and the PendingEdit stored for it holds the same values     *)
(* with the cwd of the turn and the id of the user who asked.               *)
C32_Payload ==
    /\ \A p \in Procs :
          tasks[p].result.status = "pending_approval"
              => Carries(tasks[p].result, Trigger(p))
    /\ \A e \in DOMAIN pending_edits :
          LET entry == pending_edits[e]
              p == entry.process
              r == tasks[p].result
          IN  /\ r.status = "pending_approval"
              /\ r.edit_id = e
              /\ entry.tool_name = r.tool_name
              /\ entry.file_path = r.file_path
              /\ entry.old_string = r.old_string
              /\ entry.new_string = r.new_string
              /\ entry.cwd = procs[p].cwd
              /\ entry.user_id = procs[p].user_id

(* the entry of a Write that continue_after_approval met, in the turn of *)
(* the second user started in a directory given by /cwd                  *)
C32_Witness ==
    \E e \in DOMAIN pending_edits :
        /\ pending_edits[e].tool_name = "Write"
        /\ pending_edits[e].new_string = "c"
        /\ pending_edits[e].user_id = 2
        /\ pending_edits[e].cwd = "/w"
        /\ tasks[pending_edits[e].process].kind = "cb"

(* the entry of an Edit that run_claude_streaming met *)
C32_WitnessEdit ==
    \E e \in DOMAIN pending_edits :
        /\ pending_edits[e].tool_name = "Edit"
        /\ pending_edits[e].old_string = "o"
        /\ pending_edits[e].new_string = "n"
        /\ tasks[pending_edits[e].process].kind = "msg"

(* The characters of the subprocess's standard error in the final message *)
(* handle_message sent for the turn of p: it sends result["message"] as   *)
(* it is                                                                  *)
StderrSent(p) ==
    IF /\ tasks[p].kind = "msg"
       /\ tasks[p].reply = "error"
       /\ tasks[p].result.status = "error"
    THEN tasks[p].result.message.stderr_chars
    ELSE 0

(* C33: no text read from the subprocess's standard error is contained in *)
(* a message sent to the chat user.                                       *)
C33_StderrNotShown == \A p \in Procs : StderrSent(p) = 0

(* Unless the subprocess exited with a non-zero status, no standard error *)
(* is sent.                                                               *)
StderrOnlyOnFailure ==
    \A p \in Procs : StderrSent(p) > 0 => procs[p].returncode # 0

(* C34: an entry of pending_edits is removed only by a handle_edit_callback *)
(* invocation for its id made by its originating user; every other step (a  *)
(* message or a command of any user, /new and /cwd included, the resolution *)
(* of another id, a decision by another user, a read, a timeout) leaves the *)
(* entry in the table, unchanged.                                           *)
C34_OnlyOwnerRemoves ==
    [][\A e \in DOMAIN pending_edits :
          \/ /\ e \in DOMAIN pending_edits'
             /\ pending_edits'[e] = pending_edits[e]
          \/ /\ ev'.edit = e
             /\ ev'.own
             /\ ev'.outcome \in {"approve", "reject"}]_vars

(* the user of a pending entry has started a new session in another *)
(* directory since, and the entry is as it was stored               *)
C34_Witness ==
    /\ call.op = "cmd_new"
    /\ call.turns = 1
    /\ \E e \in DOMAIN pending_edits :
          /\ pending_edits[e].user_id = call.user_id
          /\ pending_edits[e].cwd # sessions[call.user_id].cwd
          /\ ev.outcome = "unauthorized"
          /\ ev.edit = e

(* A turn of user u started after the first n turns has completed *)
CompletedSince(u, n) ==
    \E p \in Procs : p > n /\ procs[p].user_id = u /\ Completed(p)

(* C35: after SessionManager.reset for a user (the /new command) the      *)
(* user's resume_id stays None until a turn started after the reset       *)
(* completes; approving an edit suspended before the reset does not write *)
(* the old conversation's token into the new session.                     *)
C35_ResetHolds ==
    call.op = "cmd_new" /\ sessions[call.user_id].resume_id # None
        => CompletedSince(call.user_id, call.turns)

(* The token in the session of the user who reset last comes from a turn *)
(* of that user, started before the reset or after it.                   *)
TokenFromOwnTurn ==
    call.op = "cmd_new" /\ sessions[call.user_id].resume_id # None
        => CompletedSince(call.user_id, 0)

(* C36: a turn whose subprocess exited with a non-zero status does not    *)
(* resolve to complete: run_claude_streaming and continue_after_approval  *)
(* return status error whenever the exit status at stream end is not 0.   *)
C36_FailedNotComplete ==
    \A p \in Procs : Completed(p) => procs[p].returncode = 0

(* The same for the outcomes of run_claude_streaming alone *)
RunFailedNotComplete ==
    \A p \in Procs :
        tasks[p].kind = "msg" /\ Completed(p) => procs[p].returncode = 0

(* C37: handle_edit_callback kills the subprocess only when the action   *)
(* token of the callback is exactly reject and resumes reading only when *)
(* it is exactly approve; a callback of the originating user for an      *)
(* existing id with any other token leaves the entry in pending_edits    *)
(* and the process untouched.                                            *)
C37_ExactToken ==
    [][/\ \A p \in Procs :
             /\ procs'[p].kills > procs[p].kills => tasks'[p].action = "reject"
             /\ tasks'[p].pc = "approve" /\ tasks[p].pc # "approve"
                   => tasks'[p].action = "approve"
       /\ \A e \in DOMAIN pending_edits :
             e \notin DOMAIN pending_edits'
                 => tasks'[pending_edits[e].process].action
                        \in {"approve", "reject"}]_vars

(* run_claude_streaming is still in its read loop for process p *)
InLoop(p) == tasks[p].kind = "msg" /\ tasks[p].pc = "read"

(* C38: on every path by which run_claude_streaming leaves its loop and   *)
(* returns or raises (pending approval, stream end, read timeout,         *)
(* non-zero exit, exception while handling an event) the heartbeat task   *)
(* and the stderr reader task have been cancelled, and the heartbeat      *)
(* issues no status update for the turn afterwards.                       *)
C38_TasksCancelled ==
    /\ [](\A p \in Procs :
             ~InLoop(p) => /\ procs[p].heartbeat_task = "cancelled"
                           /\ procs[p].stderr_task = "cancelled")
    /\ [][\A p \in Procs :
             ~InLoop(p) => /\ procs'[p].i = procs[p].i
                           /\ procs'[p].phase = procs[p].phase]_vars

(* the heartbeat had displayed a phase when an undecodable chunk raised *)
C38_Witness ==
    \E p \in Procs :
        /\ tasks[p].raised
        /\ tasks[p].kind = "msg"
        /\ procs[p].phase # <<>>
        /\ procs[p].heartbeat_task = "cancelled"

(* the heartbeat ran on without display after a tool use, until the *)
(* return of a pending approval                                     *)
C38_WitnessPending ==
    \E p \in Procs :
        /\ tasks[p].kind = "msg"
        /\ tasks[p].result.status = "pending_approval"
        /\ procs[p].phase = <<0>>
        /\ procs[p].i = 3

====
